---- MODULE Spec2Model ----
(***************************************************************************)
(* The job orchestration of the AppLabs2 server (src/src/server.ts):       *)
(* the job registry, the control-signal map, the abort-controller map, the *)
(* HTTP handlers that touch them, and the two orchestration routines       *)
(* processJob and runIteration.                                            *)
(*                                                                         *)
(* The server is one Node.js process: code between two awaits runs without *)
(* interleaving.  Every action below is one such run-to-completion         *)
(* segment: an HTTP handler up to its first await (with the synchronous    *)
(* prefix of any task it starts), or the resumption of a task after the    *)
(* call it awaited has returned or thrown, up to its next await.           *)
(* Stage collaborators are external: what they return is drawn from small  *)
(* sets.  Timestamps, progress snapshots and log lines are not modelled.   *)
(*                                                                         *)
(* Two collaborators are modelled further.  The score aggregators of the   *)
(* verifiers (src/unnamed/part_000, src/src/verifier/browser-verifier.ts)  *)
(* are computed as the code computes them, in binary64 arithmetic, under   *)
(* ScoreSpec.  The generator's output directory, which the tester, the     *)
(* verifier and the delete handler also use, is one variable: TwoJobSpec   *)
(* follows two jobs that share it.                                         *)
(***************************************************************************)
EXTENDS Integers, Sequences, FiniteSets, TLC

\* Job ids the handlers are called with.  Ids are opaque and never reused.
JobIds == {"j1", "j2"}

\* The id of the one job whose whole life, under every request, Spec explores.
SoloIds == {"j1"}

\* const MAX_ITERATIONS = 5 (server.ts:338)
MAX_ITERATIONS == 5

\* const PARITY_THRESHOLD = 90 (verifier/index.ts, src/unnamed/part_000:29)
PARITY_THRESHOLD == 90

\* Number of accepted iterate(jobId) requests explored per job.
MaxIterateCalls == 1

\* Overall scores a parity report may carry: one below, one above the threshold.
Scores == {56, 95}

\* The overall score of a report computed from an empty file map, for an
\* analysis with at least one entity (src/unnamed/part_000:138-262).
EmptyDirScore == 0

\* Messages of thrown errors: a stage collaborator's, and the TypeError of
\* reading a property of undefined.
ErrCollab == "CollaboratorError"
ErrType == "TypeError"

VARIABLES
    jobs,                 \* const jobs = new Map<string, Job>()
    jobControls,          \* const jobControls = new Map<...>()
    jobAbortControllers,  \* const jobAbortControllers = new Map<...>()
    envApiKey,            \* process.env.ANTHROPIC_API_KEY is set
    ptask,                \* per job id: the processJob task (position, locals)
    rtasks,               \* per job id: the runIteration tasks started so far
    dtask,                \* per job id: a DELETE handler awaiting artifact removal
    calls,                \* per job id: stage collaborator calls started so far
    tie,                  \* per job id: accepted and cancelled were both set before any deploy call
    disk,                 \* the output directory <outputBase>/<projectSlug> holds generated files
    checks,               \* the check list handed to the score aggregators
    report                \* what the aggregators returned for it

vars == <<jobs, jobControls, jobAbortControllers, envApiKey, ptask, rtasks, dtask, calls, tie,
          disk, checks, report>>

----------------------------------------------------------------------------
\* Values

\* jobControls.get(id) === undefined
NoCtl == [present |-> FALSE, paused |-> FALSE, accepted |-> FALSE, cancelled |-> FALSE]

\* { paused: false, accepted: false, cancelled: false }
FreshCtl == [present |-> TRUE, paused |-> FALSE, accepted |-> FALSE, cancelled |-> FALSE]

\* job.parity === undefined
NoParity == [kind |-> "none", score |-> 0]

\* jobs.get(id) === undefined.  Unset optional fields of a Job are FALSE,
\* "none", "undef", 0 or the empty sequence.
NoJob == [exists |-> FALSE, status |-> "none", analysis |-> "none",
          generation |-> FALSE, tests |-> "none", fixes |-> FALSE,
          parity |-> NoParity, differentiation |-> FALSE,
          iterationCount |-> 0, maxIterations |-> 0, deployment |-> "none",
          error |-> "none", paused |-> "undef", acceptedAt |-> FALSE,
          iterations |-> <<>>]

\* The Job object the create handler builds.
NewJob == [NoJob EXCEPT !.exists = TRUE, !.status = "pending"]

\* The local variable `control` of processJob's loop: undefined, the object
\* the map currently holds ("same"), or an object the map no longer holds
\* ("stale", with its fields as they were when it was dropped: no handler
\* can reach it any more).
NoLocal == [ref |-> "undef", val |-> NoCtl]

IdleP == [pc |-> "idle", iteration |-> 0, control |-> NoLocal,
          targetUrl |-> FALSE, web |-> FALSE]

Terminal == {"complete", "failed", "cancelled"}

\* The state the handlers and tasks read and write, as one record.
W == [jobs |-> jobs, jobControls |-> jobControls,
      jobAbortControllers |-> jobAbortControllers,
      ptask |-> ptask, rtasks |-> rtasks, calls |-> calls]

\* History: in state w the control entry of j has both accepted and
\* cancelled set and the Deployer has not been called for j.
Tied(w, j) ==
    /\ w.jobControls[j].accepted
    /\ w.jobControls[j].cancelled
    /\ w.calls[j]["deploy"] = 0

Commit(w) ==
    /\ tie' = [j \in JobIds |-> tie[j] \/ Tied(w, j)]
    /\ jobs' = w.jobs
    /\ jobControls' = w.jobControls
    /\ jobAbortControllers' = w.jobAbortControllers
    /\ ptask' = w.ptask
    /\ rtasks' = w.rtasks
    /\ calls' = w.calls

----------------------------------------------------------------------------
\* Helpers of server.ts

\* function checkCancelled(jobId)
checkCancelled(w, j) == w.jobControls[j].present /\ w.jobControls[j].cancelled

\* function updateJob(jobId, updates): Object.assign on the registered job,
\* nothing when the id is not registered.
updateJob(w, j, updates) ==
    IF w.jobs[j].exists THEN [w EXCEPT !.jobs[j] = updates @@ @] ELSE w

\* The stage collaborators whose calls are counted.
Counted == {"research", "generate", "deploy"}

\* A stage collaborator call is started.
Call(w, j, stage) ==
    IF stage \in Counted THEN [w EXCEPT !.calls[j][stage] = @ + 1] ELSE w

\* The map entry of j is replaced or removed: a processJob that holds the old
\* object in `control` keeps it, detached from the map.
DropControl(w, j, new) ==
    LET old == w.jobControls[j]
        pt == w.ptask[j]
    IN [w EXCEPT !.jobControls[j] = new,
                 !.ptask[j].control =
                     IF pt.control.ref = "same"
                     THEN [ref |-> "stale", val |-> old] ELSE @]

\* `control` as processJob reads it.
LocalControl(w, j) ==
    LET c == w.ptask[j].control
    IN IF c.ref = "same" THEN w.jobControls[j] ELSE c.val

----------------------------------------------------------------------------
\* processJob (server.ts:378-654), one operator per stretch of code between
\* two awaits.  Each takes the state w and yields the state at the next await
\* (or at the task's end).

\* catch (e) of processJob (644-653)
ProcessJobCatch(w, j, msg) ==
    LET w1 == IF msg = "Cancelled"
              THEN updateJob(w, j, [status |-> "cancelled", error |-> "Cancelled by user"])
              ELSE updateJob(w, j, [status |-> "failed", error |-> msg])
    IN [w1 EXCEPT !.jobAbortControllers[j] = FALSE,
                  !.ptask[j].pc = "done",
                  !.ptask[j].control = NoLocal]

\* "Complete" and "Cleanup" (628-642): both branches of the final-score test
\* set status 'complete'.
ProcessJobComplete(w, j) ==
    LET w1 == updateJob(w, j, [status |-> "complete"])
        w2 == DropControl(w1, j, NoCtl)
    IN [w2 EXCEPT !.jobAbortControllers[j] = FALSE,
                  !.ptask[j].pc = "done",
                  !.ptask[j].control = NoLocal]

\* After the loop (557-572): the pre-deploy cancellation check, status
\* 'deploying', and the call of the Deployer.  job_current!.generation!.outputDir
\* throws a TypeError when the job is no longer registered or has no generation.
PreDeploy(w, j) ==
    IF checkCancelled(w, j) THEN ProcessJobCatch(w, j, "Cancelled")
    ELSE LET w1 == updateJob(w, j, [status |-> "deploying"])
         IN IF ~(w1.jobs[j].exists /\ w1.jobs[j].generation)
            THEN ProcessJobCatch(w1, j, ErrType)
            ELSE [Call(w1, j, "deploy") EXCEPT !.ptask[j].pc = "deploy",
                                               !.ptask[j].control = NoLocal]

\* Lines 457-470: the second cancellation check of the loop body, the
\* increment of `iteration`, and the call of the Generator.
StartPass(w, j) ==
    IF checkCancelled(w, j) THEN ProcessJobCatch(w, j, "Cancelled")
    ELSE LET it == w.ptask[j].iteration + 1
             w1 == updateJob(w, j, [iterationCount |-> it])
             w2 == updateJob(w1, j, [status |-> IF it = 1 THEN "generating" ELSE "iterating"])
         IN [Call(w2, j, "generate") EXCEPT !.ptask[j].iteration = it,
                                            !.ptask[j].pc = "generate",
                                            !.ptask[j].control = NoLocal]

\* Mutant of LoopTop: while (iteration <= MAX_ITERATIONS)
LoopTopOffByOne(w, j) ==
    IF ~(w.ptask[j].iteration <= MAX_ITERATIONS) THEN PreDeploy(w, j)
    ELSE IF checkCancelled(w, j) THEN ProcessJobCatch(w, j, "Cancelled")
    ELSE LET control == w.jobControls[j]
         IN IF control.accepted THEN PreDeploy(w, j)
            ELSE IF control.paused /\ ~control.accepted /\ ~control.cancelled
            THEN [updateJob(w, j, [status |-> "paused"]) EXCEPT
                      !.ptask[j].pc = "pausewait",
                      !.ptask[j].control = [ref |-> "same", val |-> NoCtl]]
            ELSE StartPass(w, j)

\* The loop head (437-452): the loop condition, the cancellation check, the
\* accept check, and the first evaluation of the pause-wait condition.
LoopTop(w, j) ==
    IF ~(w.ptask[j].iteration < MAX_ITERATIONS) THEN PreDeploy(w, j)
    ELSE IF checkCancelled(w, j) THEN ProcessJobCatch(w, j, "Cancelled")
    ELSE LET control == w.jobControls[j]
         IN IF control.accepted THEN PreDeploy(w, j)
            ELSE IF control.paused /\ ~control.accepted /\ ~control.cancelled
            THEN [updateJob(w, j, [status |-> "paused"]) EXCEPT
                      !.ptask[j].pc = "pausewait",
                      !.ptask[j].control = [ref |-> "same", val |-> NoCtl]]
            ELSE StartPass(w, j)

\* Mutant of PauseWake: the wait is never left.
PauseWakeNeverLeaves(w, j) == updateJob(w, j, [status |-> "paused"])

\* The pause-wait after its 2 s sleep (453-455 and the loop condition 449):
\* newControl is read from the map, the loop condition from `control`.
PauseWake(w, j) ==
    LET newControl == w.jobControls[j]
        control == LocalControl(w, j)
    IN IF ~newControl.paused \/ newControl.accepted \/ newControl.cancelled
       THEN StartPass(w, j)
       ELSE IF control.paused /\ ~control.accepted /\ ~control.cancelled
       THEN updateJob(w, j, [status |-> "paused"])
       ELSE StartPass(w, j)

\* Lines 404-435 after analyzeSaaS returned.
AfterResearch(w, j, target) ==
    IF checkCancelled(w, j) THEN ProcessJobCatch(w, j, "Cancelled")
    ELSE LET w1 == updateJob(w, j, [analysis |-> IF target THEN "withTarget" ELSE "noTarget"])
         IN LoopTop([w1 EXCEPT !.ptask[j].targetUrl = target,
                               !.ptask[j].iteration = 0], j)

\* Lines 470-486 after generateSaaS returned.
AfterGenerate(w, j) ==
    LET w1 == updateJob(w, j, [generation |-> TRUE])
    IN IF checkCancelled(w1, j) THEN ProcessJobCatch(w1, j, "Cancelled")
       ELSE [Call(updateJob(w1, j, [status |-> "testing"]), j, "test")
                EXCEPT !.ptask[j].pc = "test"]

\* Lines 508-515: the cancellation check before verifying, and the call of
\* the Verifier.
ToVerify(w, j) ==
    IF checkCancelled(w, j) THEN ProcessJobCatch(w, j, "Cancelled")
    ELSE [Call(updateJob(w, j, [status |-> "verifying"]), j, "verify")
             EXCEPT !.ptask[j].pc = "verify"]

\* Lines 486-499 after the first runTests returned.
AfterTest(w, j, passed) ==
    LET w1 == updateJob(w, j, [tests |-> IF passed THEN "passed" ELSE "failed"])
    IN IF checkCancelled(w1, j) THEN ProcessJobCatch(w1, j, "Cancelled")
       ELSE IF ~passed
       THEN [Call(updateJob(w1, j, [status |-> "fixing"]), j, "fix")
                EXCEPT !.ptask[j].pc = "fix"]
       ELSE ToVerify(w1, j)

\* Lines 499-504 after fixBugs returned: the retest is called at once.
AfterFix(w, j) ==
    [Call(updateJob(w, j, [fixes |-> TRUE]), j, "test") EXCEPT !.ptask[j].pc = "retest"]

\* Lines 504-515 after the second runTests returned.
AfterRetest(w, j, passed) ==
    ToVerify(updateJob(w, j, [tests |-> IF passed THEN "passed" ELSE "failed"]), j)

\* Mutant of PushHistory: the new entry replaces the history.
PushHistoryOverwrites(w, j, version, score) ==
    IF w.jobs[j].exists
    THEN [w EXCEPT !.jobs[j].iterations = <<[version |-> version, parityScore |-> score]>>]
    ELSE w

\* job_now.iterations.push({version, parityScore, ...}) (523-535, 725-734)
PushHistory(w, j, version, score) ==
    IF w.jobs[j].exists
    THEN [w EXCEPT !.jobs[j].iterations =
                       Append(@, [version |-> version, parityScore |-> score])]
    ELSE w

\* Mutant of AfterVerify: a pass below the threshold deploys before the next pass.
AfterVerifyDeploysEachPass(w, j, score) ==
    LET w1 == updateJob(w, j, [parity |-> [kind |-> "pre", score |-> score]])
        w2 == PushHistory(w1, j, w.ptask[j].iteration, score)
    IN IF score >= PARITY_THRESHOLD THEN PreDeploy(w2, j)
       ELSE LoopTop(Call(w2, j, "deploy"), j)

\* Lines 515-555 after checkParity returned a report with overallScore = score
\* and passesThreshold = (score >= PARITY_THRESHOLD).
AfterVerify(w, j, score) ==
    LET w1 == updateJob(w, j, [parity |-> [kind |-> "pre", score |-> score]])
        w2 == PushHistory(w1, j, w.ptask[j].iteration, score)
    IN IF score >= PARITY_THRESHOLD THEN PreDeploy(w2, j) ELSE LoopTop(w2, j)

\* Lines 572-579 after deploy returned; web: the result has renderUrls.web.
AfterDeploy(w, j, web) ==
    LET w1 == updateJob(w, j, [deployment |-> IF web THEN "web" ELSE "noweb"])
    IN IF web THEN [w1 EXCEPT !.ptask[j].pc = "browser", !.ptask[j].web = TRUE]
       ELSE ProcessJobComplete(w1, j)

\* Mutant of AfterBrowser: a failed browser verification reaches processJob's catch.
AfterBrowserAborts(w, j, ok, score) ==
    IF ~ok THEN ProcessJobCatch(w, j, ErrCollab)
    ELSE LET w1 == updateJob(w, j, [parity |-> [kind |-> "browser", score |-> score]])
         IN IF w.ptask[j].targetUrl THEN [w1 EXCEPT !.ptask[j].pc = "diff"]
            ELSE ProcessJobComplete(w1, j)

\* Lines 579-603: the 30 s wait, browserVerifier.initialize/verify/close in
\* their try block.  ok: verify returned a report (close may still throw; it
\* is caught like the rest).
AfterBrowser(w, j, ok, score) ==
    LET w1 == IF ok THEN updateJob(w, j, [parity |-> [kind |-> "browser", score |-> score]])
              ELSE w
    IN IF w.ptask[j].targetUrl THEN [w1 EXCEPT !.ptask[j].pc = "diff"]
       ELSE ProcessJobComplete(w1, j)

\* Lines 603-626: the differentiation check in its try block.
AfterDiff(w, j, ok) ==
    ProcessJobComplete(IF ok THEN updateJob(w, j, [differentiation |-> TRUE]) ELSE w, j)

\* The synchronous prefix of processJob (385-404).
ProcessJobStart(w, j) ==
    IF ~w.jobs[j].exists THEN w
    ELSE LET w1 == [DropControl(w, j, FreshCtl) EXCEPT !.jobAbortControllers[j] = TRUE]
         IN IF checkCancelled(w1, j) THEN ProcessJobCatch(w1, j, "Cancelled")
            ELSE [Call(updateJob(w1, j, [status |-> "researching",
                                         maxIterations |-> MAX_ITERATIONS]), j, "research")
                     EXCEPT !.ptask[j].pc = "research"]

----------------------------------------------------------------------------
\* runIteration (server.ts:664-757); k is the task's place in rtasks[j].
\* Its local `job` is the Job object itself: once the job is deleted from the
\* registry its writes reach nothing the server can read.

\* Mutant of RunIterationCatch: the abort controller is left in the map.
RunIterationCatchKeepsController(w, j, k, msg) ==
    LET w1 == IF msg = "Cancelled"
              THEN updateJob(w, j, [status |-> "cancelled", error |-> "Cancelled by user"])
              ELSE updateJob(w, j, [status |-> "failed", error |-> msg])
    IN [w1 EXCEPT !.rtasks[j][k].pc = "done"]

\* catch (e) of runIteration (747-756)
RunIterationCatch(w, j, k, msg) ==
    LET w1 == IF msg = "Cancelled"
              THEN updateJob(w, j, [status |-> "cancelled", error |-> "Cancelled by user"])
              ELSE updateJob(w, j, [status |-> "failed", error |-> msg])
    IN [w1 EXCEPT !.jobAbortControllers[j] = FALSE, !.rtasks[j][k].pc = "done"]

\* The synchronous prefix (665-686), run inside the iterate handler.
RunIterationStart(w, j) ==
    LET job == w.jobs[j]
        k == Len(w.rtasks[j]) + 1
        iteration == IF job.iterationCount = 0 THEN 1 ELSE job.iterationCount
        w1 == [w EXCEPT !.jobAbortControllers[j] = TRUE,
                        !.rtasks[j] = Append(@, [pc |-> "start", iteration |-> iteration])]
    IN IF ~(job.exists /\ job.analysis # "none") THEN w
       ELSE IF checkCancelled(w1, j) THEN RunIterationCatch(w1, j, k, "Cancelled")
       ELSE [Call(updateJob(w1, j, [status |-> "generating"]), j, "generate")
                EXCEPT !.rtasks[j][k].pc = "generate"]

\* Lines 686-697 after generateSaaS returned.
RunIterationAfterGenerate(w, j, k) ==
    LET w1 == updateJob(w, j, [generation |-> TRUE])
    IN IF checkCancelled(w1, j) THEN RunIterationCatch(w1, j, k, "Cancelled")
       ELSE [Call(updateJob(w1, j, [status |-> "testing"]), j, "test")
                EXCEPT !.rtasks[j][k].pc = "test"]

\* Lines 714-721: the cancellation check before verifying, and the call.
RunIterationToVerify(w, j, k) ==
    IF checkCancelled(w, j) THEN RunIterationCatch(w, j, k, "Cancelled")
    ELSE [Call(updateJob(w, j, [status |-> "verifying"]), j, "verify")
             EXCEPT !.rtasks[j][k].pc = "verify"]

\* Lines 697-707 after the first runTests returned.
RunIterationAfterTest(w, j, k, passed) ==
    LET w1 == updateJob(w, j, [tests |-> IF passed THEN "passed" ELSE "failed"])
    IN IF checkCancelled(w1, j) THEN RunIterationCatch(w1, j, k, "Cancelled")
       ELSE IF ~passed
       THEN [Call(updateJob(w1, j, [status |-> "fixing"]), j, "fix")
                EXCEPT !.rtasks[j][k].pc = "fix"]
       ELSE RunIterationToVerify(w1, j, k)

\* Lines 707-710 after fixBugs returned.
RunIterationAfterFix(w, j, k) ==
    [Call(updateJob(w, j, [fixes |-> TRUE]), j, "test") EXCEPT !.rtasks[j][k].pc = "retest"]

\* Lines 710-721 after the second runTests returned.
RunIterationAfterRetest(w, j, k, passed) ==
    RunIterationToVerify(updateJob(w, j, [tests |-> IF passed THEN "passed" ELSE "failed"]), j, k)

\* Mutant of RunIterationAfterVerify: no history entry is pushed.
RunIterationAfterVerifyNoHistory(w, j, k, score) ==
    LET w1 == updateJob(w, j, [parity |-> [kind |-> "pre", score |-> score]])
        w3 == updateJob(w1, j, [status |-> "complete"])
        w4 == DropControl(w3, j, NoCtl)
    IN [w4 EXCEPT !.jobAbortControllers[j] = FALSE, !.rtasks[j][k].pc = "done"]

\* Lines 721-745 after checkParity returned: history, status 'complete',
\* removal of the control and abort-controller entries.
RunIterationAfterVerify(w, j, k, score) ==
    LET w1 == updateJob(w, j, [parity |-> [kind |-> "pre", score |-> score]])
        w2 == PushHistory(w1, j, w.rtasks[j][k].iteration, score)
        w3 == updateJob(w2, j, [status |-> "complete"])
        w4 == DropControl(w3, j, NoCtl)
    IN [w4 EXCEPT !.jobAbortControllers[j] = FALSE, !.rtasks[j][k].pc = "done"]

----------------------------------------------------------------------------
\* HTTP handlers

\* jobControls.get(jobId) || { paused: false, accepted: false, cancelled: false }
GetOrNewControl(w, j) == IF w.jobControls[j].present THEN w.jobControls[j] ELSE FreshCtl

\* POST /api/jobs/:id/pause (127-141)
PauseHandler(w, j) ==
    LET w1 == [w EXCEPT !.jobControls[j] = [GetOrNewControl(w, j) EXCEPT !.paused = TRUE]]
    IN IF w1.jobs[j].exists THEN [w1 EXCEPT !.jobs[j].paused = "true"] ELSE w1

\* POST /api/jobs/:id/continue (144-158)
ContinueHandler(w, j) ==
    LET w1 == [w EXCEPT !.jobControls[j] = [GetOrNewControl(w, j) EXCEPT !.paused = FALSE]]
    IN IF w1.jobs[j].exists THEN [w1 EXCEPT !.jobs[j].paused = "false"] ELSE w1

\* POST /api/jobs/:id/accept (161-175)
AcceptHandler(w, j) ==
    LET w1 == [w EXCEPT !.jobControls[j] = [GetOrNewControl(w, j) EXCEPT !.accepted = TRUE]]
    IN IF w1.jobs[j].exists THEN [w1 EXCEPT !.jobs[j].acceptedAt = TRUE] ELSE w1

\* Mutant of CancelHandler: the status is not checked.
CancelHandlerAnyStatus(w, j) ==
    IF ~w.jobs[j].exists THEN w
    ELSE [w EXCEPT !.jobControls[j] = [GetOrNewControl(w, j) EXCEPT !.cancelled = TRUE],
                   !.jobs[j].status = "cancelled",
                   !.jobs[j].error = "Cancelled by user"]

\* POST /api/jobs/:id/cancel (178-207)
CancelHandler(w, j) ==
    IF ~w.jobs[j].exists THEN w
    ELSE IF w.jobs[j].status \in Terminal THEN w
    ELSE [w EXCEPT !.jobControls[j] = [GetOrNewControl(w, j) EXCEPT !.cancelled = TRUE],
                   !.jobs[j].status = "cancelled",
                   !.jobs[j].error = "Cancelled by user"]

\* Mutant of IterateAccepted: the status is not checked.
IterateAcceptedAnyStatus(w, j, apiKey) ==
    /\ w.jobs[j].exists
    /\ w.jobs[j].analysis # "none"
    /\ apiKey

\* The checks of POST /api/jobs/:id/iterate (212-231)
IterateAccepted(w, j, apiKey) ==
    /\ w.jobs[j].exists
    /\ w.jobs[j].status \in {"complete", "paused"}
    /\ w.jobs[j].analysis # "none"
    /\ apiKey

\* Mutant of IterateHandler: maxIterations is not extended.
IterateHandlerKeepsMax(w, j, apiKey) ==
    IF ~IterateAccepted(w, j, apiKey) THEN w
    ELSE LET job == w.jobs[j]
             w1 == DropControl(w, j, FreshCtl)
             w2 == [w1 EXCEPT
                       !.jobs[j].status = "iterating",
                       !.jobs[j].iterationCount = job.iterationCount + 1]
         IN RunIterationStart(w2, j)

\* POST /api/jobs/:id/iterate (210-245)
IterateHandler(w, j, apiKey) ==
    IF ~IterateAccepted(w, j, apiKey) THEN w
    ELSE LET job == w.jobs[j]
             w1 == DropControl(w, j, FreshCtl)
             w2 == [w1 EXCEPT
                       !.jobs[j].status = "iterating",
                       !.jobs[j].iterationCount = job.iterationCount + 1,
                       !.jobs[j].maxIterations =
                           (IF job.maxIterations = 0 THEN 5 ELSE job.maxIterations) + 1]
         IN RunIterationStart(w2, j)

\* DELETE /api/jobs/:id, step 1 (259-268): cancel if still running.
DeleteCancel(w, j) ==
    IF w.jobs[j].status \notin Terminal
    THEN [w EXCEPT !.jobControls[j] = [GetOrNewControl(w, j) EXCEPT !.cancelled = TRUE]]
    ELSE w

\* DELETE /api/jobs/:id, step 5 (318-321): remove from the three maps.
DeleteRemove(w, j) ==
    [DropControl(w, j, NoCtl) EXCEPT !.jobs[j] = NoJob, !.jobAbortControllers[j] = FALSE]

\* Steps 2-4 await (the GitHub request, the import of fs/promises) exactly
\* when the job holds a deployment or a generation; a deployment is only ever
\* stored after a generation.
DeleteAwaits(w, j) == w.jobs[j].generation

\* Mutant of CreateHandler: the credential is not checked.
CreateHandlerNoKeyCheck(w, j, saasName, apiKey) ==
    IF ~saasName THEN w
    ELSE ProcessJobStart([w EXCEPT !.jobs[j] = NewJob], j)

\* POST /api/jobs (74-107): the checks, the new Job, and the synchronous
\* prefix of processJob.
CreateHandler(w, j, saasName, apiKey) ==
    IF ~saasName \/ ~apiKey THEN w
    ELSE ProcessJobStart([w EXCEPT !.jobs[j] = NewJob], j)

-----------------------------------------------------------------------------
\* JavaScript numbers.  calculateScore computes in IEEE-754 binary64 with
\* round-to-nearest, ties-to-even.  A number is kept exactly: a finite one as
\* mant * 2^exp with a 53-bit mantissa (zero: empty mantissa), mantissas being
\* naturals written in limbs of LimbBits bits, lowest limb first.

LimbBits == 15
Limb == 2^LimbBits
MantBits == 53

NaN == [kind |-> "nan", mant |-> <<>>, exp |-> 0]
Infinity == [kind |-> "inf", mant |-> <<>>, exp |-> 0]
Zero == [kind |-> "finite", mant |-> <<>>, exp |-> 0]

RECURSIVE BigNorm(_)
BigNorm(n) ==
    IF n = <<>> THEN <<>>
    ELSE IF n[Len(n)] = 0 THEN BigNorm(SubSeq(n, 1, Len(n) - 1)) ELSE n

RECURSIVE BigFromInt(_)
BigFromInt(i) == IF i = 0 THEN <<>> ELSE <<i % Limb>> \o BigFromInt(i \div Limb)

RECURSIVE BigToInt(_)
BigToInt(n) == IF n = <<>> THEN 0 ELSE n[1] + Limb * BigToInt(Tail(n))

RECURSIVE BigMulAdd(_, _, _)
\* n * c + carry, for c below Limb
BigMulAdd(n, c, carry) ==
    IF n = <<>> THEN BigFromInt(carry)
    ELSE LET t == n[1] * c + carry
         IN <<t % Limb>> \o BigMulAdd(Tail(n), c, t \div Limb)

RECURSIVE BigAddCarry(_, _, _)
BigAddCarry(a, b, carry) ==
    IF a = <<>> /\ b = <<>> THEN BigFromInt(carry)
    ELSE LET x == IF a = <<>> THEN 0 ELSE a[1]
             y == IF b = <<>> THEN 0 ELSE b[1]
             t == x + y + carry
         IN <<t % Limb>> \o BigAddCarry(IF a = <<>> THEN a ELSE Tail(a),
                                        IF b = <<>> THEN b ELSE Tail(b), t \div Limb)

BigAdd(a, b) == BigAddCarry(a, b, 0)

RECURSIVE BigDivRem(_, _)
\* quotient (limbs not normalised) and remainder of n by d, for 0 < d <= Limb
BigDivRem(n, d) ==
    IF n = <<>> THEN [q |-> <<>>, r |-> 0]
    ELSE LET h == BigDivRem(Tail(n), d)
             t == Limb * h.r + n[1]
         IN [q |-> <<t \div d>> \o h.q, r |-> t % d]

RECURSIVE IntBitLen(_)
IntBitLen(i) == IF i = 0 THEN 0 ELSE 1 + IntBitLen(i \div 2)

BigBitLen(n) == IF n = <<>> THEN 0 ELSE LimbBits * (Len(n) - 1) + IntBitLen(n[Len(n)])

RECURSIVE BigShl(_, _)
BigShl(n, k) ==
    IF n = <<>> \/ k = 0 THEN n
    ELSE IF k >= LimbBits THEN <<0>> \o BigShl(n, k - LimbBits)
    ELSE BigNorm(BigMulAdd(n, 2^k, 0))

RECURSIVE BigShr(_, _)
\* n shifted right by k bits, and whether a set bit was shifted out
BigShr(n, k) ==
    IF n = <<>> \/ k = 0 THEN [q |-> n, lost |-> FALSE]
    ELSE IF k >= LimbBits
         THEN LET h == BigShr(Tail(n), k - LimbBits)
              IN [q |-> h.q, lost |-> h.lost \/ n[1] # 0]
    ELSE LET d == BigDivRem(n, 2^k)
         IN [q |-> BigNorm(d.q), lost |-> d.r # 0]

\* The double nearest to (n + f) * 2^e, where n is a natural and 0 <= f < 1
\* with f > 0 exactly when sticky; sticky only comes with n of more than
\* MantBits + 1 bits.
DblRoundTo(n, e, sticky) ==
    LET len == BigBitLen(n)
    IN IF len = 0 THEN Zero
       ELSE IF len <= MantBits
            THEN [kind |-> "finite", mant |-> BigShl(n, MantBits - len), exp |-> e - (MantBits - len)]
       ELSE LET s == len - MantBits
                g == BigShr(n, s - 1)
                guard == g.q[1] % 2 = 1
                q == BigNorm(BigDivRem(g.q, 2).q)
                up == guard /\ (g.lost \/ sticky \/ q[1] % 2 = 1)
                m == IF up THEN BigNorm(BigAdd(q, <<1>>)) ELSE q
            IN IF BigBitLen(m) > MantBits
               THEN [kind |-> "finite", mant |-> BigNorm(BigDivRem(m, 2).q), exp |-> e + s + 1]
               ELSE [kind |-> "finite", mant |-> m, exp |-> e + s]

DblFromInt(i) == DblRoundTo(BigFromInt(i), 0, FALSE)

\* x / d for a double x >= 0 and an integer 0 <= d < Limb
DblDivInt(x, d) ==
    IF x.kind = "nan" THEN NaN
    ELSE IF x.kind = "inf" THEN Infinity
    ELSE IF d = 0 THEN (IF x.mant = <<>> THEN NaN ELSE Infinity)
    ELSE IF x.mant = <<>> THEN Zero
    ELSE LET k == IntBitLen(d) + 3
             r == BigDivRem(BigShl(x.mant, k), d)
         IN DblRoundTo(BigNorm(r.q), x.exp - k, r.r # 0)

\* x * c for a double x >= 0 and an integer 0 <= c < Limb
DblMulInt(x, c) ==
    IF x.kind = "nan" THEN NaN
    ELSE IF x.kind = "inf" THEN (IF c = 0 THEN NaN ELSE Infinity)
    ELSE IF x.mant = <<>> \/ c = 0 THEN Zero
    ELSE DblRoundTo(BigNorm(BigMulAdd(x.mant, c, 0)), x.exp, FALSE)

\* x + y for doubles x, y >= 0
DblAdd(x, y) ==
    IF x.kind = "nan" \/ y.kind = "nan" THEN NaN
    ELSE IF x.kind = "inf" \/ y.kind = "inf" THEN Infinity
    ELSE IF x.mant = <<>> THEN y
    ELSE IF y.mant = <<>> THEN x
    ELSE LET hi == IF x.exp >= y.exp THEN x ELSE y
             lo == IF x.exp >= y.exp THEN y ELSE x
         IN DblRoundTo(BigNorm(BigAdd(BigShl(hi.mant, hi.exp - lo.exp), lo.mant)), lo.exp, FALSE)

RECURSIVE BigLess(_, _)
\* a < b, for normalised a and b
BigLess(a, b) ==
    IF Len(a) # Len(b) THEN Len(a) < Len(b)
    ELSE IF a = <<>> THEN FALSE
    ELSE IF a[Len(a)] # b[Len(b)] THEN a[Len(a)] < b[Len(b)]
    ELSE BigLess(SubSeq(a, 1, Len(a) - 1), SubSeq(b, 1, Len(b) - 1))

\* x < y for finite doubles x, y >= 0
DblLess(x, y) ==
    IF y.mant = <<>> THEN FALSE
    ELSE IF x.mant = <<>> THEN TRUE
    ELSE IF x.exp # y.exp THEN x.exp < y.exp
    ELSE BigLess(x.mant, y.mant)

\* Math.min(x, y) for finite doubles x, y >= 0
MathMin(x, y) == IF DblLess(y, x) THEN y ELSE x

\* An integer-valued number as an integer of the model, NaN and Infinity kept
\* apart.
Num(i) == [kind |-> "finite", value |-> i]
NumNaN == [kind |-> "nan", value |-> 0]
NumInfinity == [kind |-> "inf", value |-> 0]

\* Math.round(x) for a double 0 <= x < 2^30: floor(x + 1/2) of the exact
\* value; Math.round(NaN) is NaN.
MathRound(x) ==
    IF x.kind = "nan" THEN NumNaN
    ELSE IF x.kind = "inf" THEN NumInfinity
    ELSE IF x.mant = <<>> THEN Num(0)
    ELSE Num((BigToInt(BigShr(x.mant, (0 - x.exp) - 1).q) + 1) \div 2)

\* a >= b in JavaScript for a rounded number a and an integer b: false for NaN
NumGeq(a, b) == a.kind = "inf" \/ (a.kind = "finite" /\ a.value >= b)

-----------------------------------------------------------------------------
\* The two score aggregators: VerifierModule.calculateScore
\* (verifier/index.ts) and BrowserVerifier.calculateScore
\* (verifier/browser-verifier.ts).  A check is [key, score]: its feature
\* (FeatureCheck) or category (BrowserCheck), and its score, a double.

CORE_FEATURE_WEIGHTS ==
    [landing_page |-> 10, navigation |-> 8, list_view |-> 10, detail_view |-> 8,
     create_form |-> 10, edit_form |-> 8, delete_action |-> 5, search |-> 8,
     responsive_design |-> 5, loading_states |-> 3, error_handling |-> 5,
     empty_states |-> 3, api_integration |-> 10, mock_data |-> 7]

\* The table `weights` of BrowserVerifier.calculateScore.
weights == [ui |-> 20, navigation |-> 15, crud |-> 25, forms |-> 20, search |-> 10]

\* table[key] || fallback: every table entry is a non-zero number.
WeightOr(table, key, fallback) == IF key \in DOMAIN table THEN table[key] ELSE fallback

\* scoreFeature's return value for foundCount of keywords.length keywords.
scoreFeature(foundCount, length) ==
    MathMin(DblFromInt(100), DblMulInt(DblDivInt(DblFromInt(foundCount), length), 100))

RECURSIVE ScoreLoop(_, _, _)
\* The for-loop of either calculateScore, over the checks in order.
ScoreLoop(cs, table, fallback) ==
    IF cs = <<>> THEN [totalWeight |-> 0, weightedScore |-> Zero]
    ELSE LET acc == ScoreLoop(SubSeq(cs, 1, Len(cs) - 1), table, fallback)
             check == cs[Len(cs)]
             weight == WeightOr(table, check.key, fallback)
         IN [totalWeight |-> acc.totalWeight + weight,
             weightedScore |-> DblAdd(acc.weightedScore,
                                      DblMulInt(DblDivInt(check.score, 100), weight))]

\* calculateScore without the division by totalWeight.
calculateScoreUnnormalised(cs) ==
    LET acc == ScoreLoop(cs, CORE_FEATURE_WEIGHTS, 5)
    IN MathRound(DblMulInt(acc.weightedScore, 100))

\* calculateScore counting a full score as none.
calculateScoreWraps(cs) ==
    LET wrapped == [i \in 1..Len(cs) |->
                       IF cs[i].score = DblFromInt(100)
                       THEN [cs[i] EXCEPT !.score = Zero] ELSE cs[i]]
        acc == ScoreLoop(wrapped, CORE_FEATURE_WEIGHTS, 5)
    IN MathRound(DblMulInt(DblDivInt(acc.weightedScore, acc.totalWeight), 100))

\* VerifierModule.calculateScore
calculateScore(cs) ==
    LET acc == ScoreLoop(cs, CORE_FEATURE_WEIGHTS, 5)
    IN MathRound(DblMulInt(DblDivInt(acc.weightedScore, acc.totalWeight), 100))

\* BrowserVerifier.calculateScore
browserCalculateScore(cs) ==
    LET acc == ScoreLoop(cs, weights, 10)
    IN MathRound(DblMulInt(DblDivInt(acc.weightedScore, acc.totalWeight), 100))

\* The fields of checkParity's report that come from the aggregate.
checkParity(cs) ==
    LET overallScore == calculateScore(cs)
    IN [overallScore |-> overallScore,
        passesThreshold |-> NumGeq(overallScore, PARITY_THRESHOLD)]

\* The fields of BrowserVerifier.verify's report that come from the aggregate.
verify(cs) ==
    LET totalScore == browserCalculateScore(cs)
    IN [totalScore |-> totalScore,
        passesThreshold |-> NumGeq(totalScore, PARITY_THRESHOLD)]

\* No aggregate has been computed for the current check list.
NoReport == [scored |-> FALSE, parity |-> checkParity(<<>>), browser |-> verify(<<>>),
             raised |-> FALSE, before |-> <<NumNaN, NumNaN>>]

\* Both reports for a check list; `raised` and `before` remember the aggregates
\* of the list as it was before a single score in it was raised.
Report(cs) == [scored |-> TRUE, parity |-> checkParity(cs), browser |-> verify(cs),
               raised |-> FALSE, before |-> <<NumNaN, NumNaN>>]

----------------------------------------------------------------------------
\* The state machine

Init ==
    /\ jobs = [j \in JobIds |-> NoJob]
    /\ jobControls = [j \in JobIds |-> NoCtl]
    /\ jobAbortControllers = [j \in JobIds |-> FALSE]
    /\ envApiKey \in BOOLEAN
    /\ ptask = [j \in JobIds |-> IdleP]
    /\ rtasks = [j \in JobIds |-> <<>>]
    /\ dtask = [j \in JobIds |-> "idle"]
    /\ calls = [j \in JobIds |-> [s \in Counted |-> 0]]
    /\ tie = [j \in JobIds |-> FALSE]
    /\ disk = FALSE
    /\ checks = <<>>
    /\ report = NoReport

\* POST /api/jobs with a fresh id j; the request may lack saasName and may
\* carry its own anthropicApiKey.
Create(j) ==
    /\ ptask[j].pc = "idle"
    /\ \E saasName \in BOOLEAN, anthropicApiKey \in BOOLEAN :
           Commit(CreateHandler(W, j, saasName, anthropicApiKey \/ envApiKey))
    /\ UNCHANGED <<envApiKey, dtask, disk, checks, report>>

Pause(j) ==
    /\ Commit(PauseHandler(W, j))
    /\ UNCHANGED <<envApiKey, dtask, disk, checks, report>>

Continue(j) ==
    /\ Commit(ContinueHandler(W, j))
    /\ UNCHANGED <<envApiKey, dtask, disk, checks, report>>

Accept(j) ==
    /\ Commit(AcceptHandler(W, j))
    /\ UNCHANGED <<envApiKey, dtask, disk, checks, report>>

Cancel(j) ==
    /\ Commit(CancelHandler(W, j))
    /\ UNCHANGED <<envApiKey, dtask, disk, checks, report>>

Iterate(j) ==
    /\ Len(rtasks[j]) < MaxIterateCalls
    /\ Commit(IterateHandler(W, j, envApiKey))
    /\ UNCHANGED <<envApiKey, dtask, disk, checks, report>>

\* DELETE /api/jobs/:id up to its first await, or to its end when it has none.
\* One DELETE request per job is in flight at a time.
Delete(j) ==
    /\ dtask[j] = "idle"
    /\ jobs[j].exists
    /\ LET w1 == DeleteCancel(W, j)
       IN IF DeleteAwaits(w1, j)
          THEN Commit(w1) /\ dtask' = [dtask EXCEPT ![j] = "artifacts"]
          ELSE Commit(DeleteRemove(w1, j)) /\ dtask' = dtask
    /\ UNCHANGED <<envApiKey, disk, checks, report>>

\* DELETE /api/jobs/:id after the artifact removal returned (step 4, 305-315):
\* fs.rm removed the job's output directory, or failed and was only reported.
DeleteFinish(j) ==
    /\ dtask[j] = "artifacts"
    /\ Commit(DeleteRemove(W, j))
    /\ dtask' = [dtask EXCEPT ![j] = "idle"]
    /\ \E removed \in BOOLEAN : disk' = (disk /\ ~removed)
    /\ UNCHANGED <<envApiKey, checks, report>>

Rest == UNCHANGED <<envApiKey, dtask, disk, checks, report>>

\* What checkParity reports: it scores the files it finds under the output
\* directory (verifier/index.ts, src/unnamed/part_000:105-128); with the
\* directory gone every feature check scores 0.
ReportedScores == IF disk THEN Scores ELSE {EmptyDirScore}

ResearchReturns(j) ==
    /\ ptask[j].pc = "research"
    /\ \E target \in BOOLEAN : Commit(AfterResearch(W, j, target))
    /\ Rest

PauseTick(j) ==
    /\ ptask[j].pc = "pausewait"
    /\ Commit(PauseWake(W, j))
    /\ Rest

\* generateSaaS has written the project into the output directory
\* (generator/index.ts:26-28).
GenerateReturns(j) ==
    /\ ptask[j].pc = "generate"
    /\ Commit(AfterGenerate(W, j))
    /\ disk' = TRUE
    /\ UNCHANGED <<envApiKey, dtask, checks, report>>

TestReturns(j) ==
    /\ ptask[j].pc = "test"
    /\ \E passed \in BOOLEAN : Commit(AfterTest(W, j, passed))
    /\ Rest

FixReturns(j) ==
    /\ ptask[j].pc = "fix"
    /\ Commit(AfterFix(W, j))
    /\ Rest

RetestReturns(j) ==
    /\ ptask[j].pc = "retest"
    /\ \E passed \in BOOLEAN : Commit(AfterRetest(W, j, passed))
    /\ Rest

VerifyReturns(j) ==
    /\ ptask[j].pc = "verify"
    /\ \E score \in ReportedScores : Commit(AfterVerify(W, j, score))
    /\ Rest

DeployReturns(j) ==
    /\ ptask[j].pc = "deploy"
    /\ \E web \in BOOLEAN : Commit(AfterDeploy(W, j, web))
    /\ Rest

BrowserReturns(j) ==
    /\ ptask[j].pc = "browser"
    /\ \E ok \in BOOLEAN, score \in Scores : Commit(AfterBrowser(W, j, ok, score))
    /\ Rest

DiffReturns(j) ==
    /\ ptask[j].pc = "diff"
    /\ \E ok \in BOOLEAN : Commit(AfterDiff(W, j, ok))
    /\ Rest

\* A required stage collaborator call of processJob throws.
StageThrows(j) ==
    /\ ptask[j].pc \in {"research", "generate", "test", "fix", "retest", "verify", "deploy"}
    /\ Commit(ProcessJobCatch(W, j, ErrCollab))
    /\ Rest

RGenerateReturns(j) ==
    /\ \E k \in 1..Len(rtasks[j]) :
           /\ rtasks[j][k].pc = "generate"
           /\ Commit(RunIterationAfterGenerate(W, j, k))
    /\ disk' = TRUE
    /\ UNCHANGED <<envApiKey, dtask, checks, report>>

RTestReturns(j) ==
    /\ \E k \in 1..Len(rtasks[j]), passed \in BOOLEAN :
           /\ rtasks[j][k].pc = "test"
           /\ Commit(RunIterationAfterTest(W, j, k, passed))
    /\ Rest

RFixReturns(j) ==
    /\ \E k \in 1..Len(rtasks[j]) :
           /\ rtasks[j][k].pc = "fix"
           /\ Commit(RunIterationAfterFix(W, j, k))
    /\ Rest

RRetestReturns(j) ==
    /\ \E k \in 1..Len(rtasks[j]), passed \in BOOLEAN :
           /\ rtasks[j][k].pc = "retest"
           /\ Commit(RunIterationAfterRetest(W, j, k, passed))
    /\ Rest

RVerifyReturns(j) ==
    /\ \E k \in 1..Len(rtasks[j]), score \in ReportedScores :
           /\ rtasks[j][k].pc = "verify"
           /\ Commit(RunIterationAfterVerify(W, j, k, score))
    /\ Rest

\* A stage collaborator call of runIteration throws.
RStageThrows(j) ==
    /\ \E k \in 1..Len(rtasks[j]) :
           /\ rtasks[j][k].pc \in {"generate", "test", "fix", "retest", "verify"}
           /\ Commit(RunIterationCatch(W, j, k, ErrCollab))
    /\ Rest

Next ==
    \E j \in SoloIds :
        \/ Create(j)
        \/ Pause(j)
        \/ Continue(j)
        \/ Accept(j)
        \/ Cancel(j)
        \/ Iterate(j)
        \/ Delete(j)
        \/ DeleteFinish(j)
        \/ ResearchReturns(j)
        \/ PauseTick(j)
        \/ GenerateReturns(j)
        \/ TestReturns(j)
        \/ FixReturns(j)
        \/ RetestReturns(j)
        \/ VerifyReturns(j)
        \/ DeployReturns(j)
        \/ BrowserReturns(j)
        \/ DiffReturns(j)
        \/ StageThrows(j)
        \/ RGenerateReturns(j)
        \/ RTestReturns(j)
        \/ RFixReturns(j)
        \/ RRetestReturns(j)
        \/ RVerifyReturns(j)
        \/ RStageThrows(j)

Spec == Init /\ [][Next]_vars

\* A run that receives no request but the create, and in which no stage
\* collaborator throws; every awaited call eventually returns.
QuietNext ==
    \E j \in SoloIds :
        \/ Create(j)
        \/ ResearchReturns(j)
        \/ GenerateReturns(j)
        \/ TestReturns(j)
        \/ FixReturns(j)
        \/ RetestReturns(j)
        \/ VerifyReturns(j)
        \/ DeployReturns(j)
        \/ BrowserReturns(j)
        \/ DiffReturns(j)

QuietSpec == Init /\ [][QuietNext]_vars /\ WF_vars(QuietNext)

----------------------------------------------------------------------------
\* The aggregators on their own: a caller builds a check list, has it scored,
\* and raises single scores of a scored list.

\* Longest check list.
MaxChecks == 2

\* Keys of the checks: listed in both tables, in one only, in neither.
Keys == {"search", "api_integration", "loading_states", "ui", "custom_feature"}

\* Scores of the checks, all in 0..100: integers, and one keyword ratio.
ScoreValues == {DblFromInt(0), DblFromInt(83), DblFromInt(96), DblFromInt(100),
                scoreFeature(1, 6)}

JobsUntouched ==
    UNCHANGED <<jobs, jobControls, jobAbortControllers, envApiKey, ptask, rtasks, dtask,
                calls, tie, disk>>

AddCheck ==
    /\ Len(checks) < MaxChecks
    /\ \E key \in Keys, score \in ScoreValues :
           checks' = Append(checks, [key |-> key, score |-> score])
    /\ report' = NoReport
    /\ JobsUntouched

ScoreChecks ==
    /\ ~report.scored
    /\ report' = Report(checks)
    /\ UNCHANGED checks
    /\ JobsUntouched

RaiseScore ==
    /\ report.scored
    /\ \E i \in 1..Len(checks), score \in ScoreValues :
           /\ DblLess(checks[i].score, score)
           /\ checks' = [checks EXCEPT ![i].score = score]
    /\ report' = [Report(checks') EXCEPT
                     !.raised = TRUE,
                     !.before = <<report.parity.overallScore, report.browser.totalScore>>]
    /\ JobsUntouched

ScoreNext == AddCheck \/ ScoreChecks \/ RaiseScore

ScoreSpec == Init /\ [][ScoreNext]_vars

----------------------------------------------------------------------------
\* Two jobs side by side, created for the same SaaS name: projectSlug
\* (server.ts:426) and with it the output directory (generator/index.ts:27)
\* are the same for both.  Job j1 receives requests; job j2 receives none
\* after its create, and none of its stage collaborators throws.

\* Generator calls per job after which a job is followed no further.
MaxPasses == 1

\* A request addressed to job a.
AddressedTo(a) ==
    \/ Pause(a)
    \/ Continue(a)
    \/ Accept(a)
    \/ Cancel(a)
    \/ Iterate(a)
    \/ Delete(a)
    \/ DeleteFinish(a)

\* Job j is followed until it has started more than MaxPasses generator calls.
Within(j) == calls[j]["generate"] <= MaxPasses

TwoJobNext ==
    \/ \E j \in JobIds : Within(j) /\ Create(j)
    \/ \E j \in JobIds : Within(j) /\ ResearchReturns(j)
    \/ \E j \in JobIds : Within(j) /\ PauseTick(j)
    \/ \E j \in JobIds : Within(j) /\ GenerateReturns(j)
    \/ \E j \in JobIds : Within(j) /\ TestReturns(j)
    \/ \E j \in JobIds : Within(j) /\ FixReturns(j)
    \/ \E j \in JobIds : Within(j) /\ RetestReturns(j)
    \/ \E j \in JobIds : Within(j) /\ VerifyReturns(j)
    \/ \E j \in JobIds : Within(j) /\ DeployReturns(j)
    \/ \E j \in JobIds : Within(j) /\ BrowserReturns(j)
    \/ \E j \in JobIds : Within(j) /\ DiffReturns(j)
    \/ \E a \in SoloIds : Within(a) /\ Pause(a)
    \/ \E a \in SoloIds : Within(a) /\ Continue(a)
    \/ \E a \in SoloIds : Within(a) /\ Accept(a)
    \/ \E a \in SoloIds : Within(a) /\ Cancel(a)
    \/ \E a \in SoloIds : Within(a) /\ Iterate(a)
    \/ \E a \in SoloIds : Within(a) /\ Delete(a)
    \/ \E a \in SoloIds : Within(a) /\ DeleteFinish(a)
    \/ \E a \in SoloIds : Within(a) /\ RGenerateReturns(a)
    \/ \E a \in SoloIds : Within(a) /\ RTestReturns(a)
    \/ \E a \in SoloIds : Within(a) /\ RFixReturns(a)
    \/ \E a \in SoloIds : Within(a) /\ RRetestReturns(a)
    \/ \E a \in SoloIds : Within(a) /\ RVerifyReturns(a)

TwoJobSpec == Init /\ [][TwoJobNext]_vars

----------------------------------------------------------------------------
\* Runs in which the job receives pause, continue, accept and cancel requests,
\* every awaited stage call eventually returns or throws, the 2 s timer of the
\* pause wait keeps firing, and a paused job that waits is eventually sent a
\* continue, an accept or a cancel.

\* The call processJob awaits returns or throws.
StageStep(j) ==
    \/ ResearchReturns(j)
    \/ GenerateReturns(j)
    \/ TestReturns(j)
    \/ FixReturns(j)
    \/ RetestReturns(j)
    \/ VerifyReturns(j)
    \/ DeployReturns(j)
    \/ BrowserReturns(j)
    \/ DiffReturns(j)
    \/ StageThrows(j)

\* A continue, accept or cancel request for a job that waits paused.
Resume(j) ==
    /\ ptask[j].pc = "pausewait"
    /\ jobControls[j].paused
    /\ (Continue(j) \/ Accept(j) \/ Cancel(j))

LiveNext ==
    \E j \in SoloIds :
        \/ Create(j)
        \/ Pause(j)
        \/ Continue(j)
        \/ Accept(j)
        \/ Cancel(j)
        \/ ResearchReturns(j)
        \/ PauseTick(j)
        \/ GenerateReturns(j)
        \/ TestReturns(j)
        \/ FixReturns(j)
        \/ RetestReturns(j)
        \/ VerifyReturns(j)
        \/ DeployReturns(j)
        \/ BrowserReturns(j)
        \/ DiffReturns(j)
        \/ StageThrows(j)

LiveSpec ==
    /\ Init
    /\ [][LiveNext]_vars
    /\ \A j \in SoloIds :
           /\ WF_vars(StageStep(j))
           /\ SF_vars(PauseTick(j))
           /\ WF_vars(Resume(j))

----------------------------------------------------------------------------
\* Properties

\* C1: once cancel(jobId) has set a job's status to `cancelled`, the status is
\* never afterwards `complete`, nor `failed` (a step in which a stage
\* collaborator throws aside: C2 covers it).
C1_CancelledIsFinal ==
    [][\A j \in JobIds :
          (/\ jobs[j].exists
           /\ jobs[j].status = "cancelled"
           /\ jobs'[j].exists
           /\ jobs'[j].error # ErrCollab)
              => jobs'[j].status \notin {"complete", "failed"}]_vars

\* C2: a status `failed` or `cancelled` never changes again, and a status
\* `complete` changes only in the step of an accepted iterate(jobId), which
\* starts a runIteration task.
C2_TerminalStable ==
    [][\A j \in JobIds :
          (jobs[j].exists /\ jobs'[j].exists) =>
              /\ jobs[j].status \in {"failed", "cancelled"}
                     => jobs'[j].status = jobs[j].status
              /\ (jobs[j].status = "complete" /\ jobs'[j].status # "complete")
                     => Len(rtasks'[j]) = Len(rtasks[j]) + 1]_vars

C4_HistoryMatchesCount ==
    \A j \in JobIds :
        (jobs[j].exists /\ jobs[j].status = "deploying")
            => Len(jobs[j].iterations) = jobs[j].iterationCount

\* The pre-deploy verifier has reported passesThreshold for j.
ThresholdReported(j) ==
    jobs[j].parity.kind = "pre" /\ jobs[j].parity.score >= PARITY_THRESHOLD

\* The job is `deploying` after exactly MAX_ITERATIONS passes and Generator calls.
AtCeiling(j) ==
    /\ jobs[j].status = "deploying"
    /\ jobs[j].iterationCount = MAX_ITERATIONS
    /\ jobs[j].maxIterations = MAX_ITERATIONS
    /\ Len(jobs[j].iterations) = MAX_ITERATIONS
    /\ calls[j]["generate"] = MAX_ITERATIONS

\* C5: a job that receives no control signal and meets no collaborator failure
\* either sees the verifier report passesThreshold or reaches `deploying`
\* with iterationCount = maxIterations = 5 after exactly 5 generate calls;
\* the Generator is never called a sixth time.
C5_IterationCeiling ==
    /\ \A j \in JobIds :
           (ptask[j].pc = "research") ~> (ThresholdReported(j) \/ AtCeiling(j))
    /\ [](\A j \in JobIds : calls[j]["generate"] <= MAX_ITERATIONS
                            /\ jobs[j].iterationCount <= MAX_ITERATIONS)

\* C5 witness: `deploying` at the ceiling with the last report below threshold.
C5_Witness ==
    \E j \in JobIds :
        /\ AtCeiling(j)
        /\ jobs[j].parity.kind = "pre"
        /\ jobs[j].parity.score < PARITY_THRESHOLD

\* C6: when processJob's verify call of pass k returns a report that passes
\* the threshold and the loop exits to the deploy stage, iterationCount = k
\* and `iterations` has exactly k entries.
C6_ThresholdExit ==
    [][\A j \in JobIds :
          (/\ ptask[j].pc = "verify"
           /\ ptask'[j].pc = "deploy"
           /\ jobs'[j].exists
           /\ jobs'[j].parity.score >= PARITY_THRESHOLD)
              => /\ jobs'[j].status = "deploying"
                 /\ jobs'[j].iterationCount = ptask[j].iteration
                 /\ Len(jobs'[j].iterations) = ptask[j].iteration]_vars

\* C7: a job whose processJob has ended with the accepted signal set and the
\* cancelled signal not set, without a collaborator failure (and with no
\* re-iteration or delete), is `complete`.
C7_AcceptedCompletes ==
    \A j \in JobIds :
        (/\ jobs[j].exists
         /\ ptask[j].pc = "done"
         /\ rtasks[j] = <<>>
         /\ dtask[j] = "idle"
         /\ jobControls[j].accepted
         /\ ~jobControls[j].cancelled
         /\ jobs[j].error # ErrCollab)
            => jobs[j].status = "complete"

\* C8: once accept(jobId) has been handled for a job, handling it again at
\* any later point changes nothing (control flags, Job Record, tasks, calls),
\* so the stage calls and the final status are those of a single accept; and
\* an accepted job whose orchestration has ended, not cancelled and with no
\* collaborator failure, has had exactly one Deployer call.
C8_AcceptIdempotent ==
    /\ [][\A j \in JobIds :
             (Accept(j) /\ jobs[j].exists /\ jobs[j].acceptedAt)
                 => UNCHANGED <<jobs, jobControls, jobAbortControllers, ptask,
                                rtasks, dtask, calls>>]_vars
    /\ [](\A j \in JobIds :
             (/\ jobs[j].exists
              /\ jobs[j].acceptedAt
              /\ ptask[j].pc = "done"
              /\ rtasks[j] = <<>>
              /\ jobs[j].status # "cancelled"
              /\ jobs[j].error # ErrCollab)
                 => calls[j]["deploy"] = 1)

\* C9: once accepted and cancelled have both been set before the deploy stage
\* began, the Deployer is never called for the job.
C9_CancelWins ==
    \A j \in JobIds : tie[j] => calls[j]["deploy"] = 0

\* C10: the Deployer is not called in a step that begins with the job's paused
\* flag set and neither accepted nor cancelled set.
C10_PausedSuspends ==
    [][\A j \in JobIds :
          (/\ jobs[j].exists
           /\ jobControls[j].present
           /\ jobControls[j].paused
           /\ ~jobControls[j].accepted
           /\ ~jobControls[j].cancelled)
              => calls'[j]["deploy"] = calls[j]["deploy"]]_vars

\* The control entry of j has paused set and neither accepted nor cancelled.
PausedOnly(j) ==
    /\ jobControls[j].present
    /\ jobControls[j].paused
    /\ ~jobControls[j].accepted
    /\ ~jobControls[j].cancelled

\* C11: when pause(jobId) has been handled during processJob's Generator call,
\* the job's status is `paused` by the time the result of that call is
\* recorded onto the Job Record.
C11_PausedBeforeRecord ==
    [][\A j \in JobIds :
          (/\ jobs[j].exists
           /\ jobs'[j].exists
           /\ ptask[j].pc = "generate"
           /\ ptask'[j].pc = "test"
           /\ jobs'[j].generation
           /\ PausedOnly(j))
              => jobs[j].status = "paused"]_vars

\* C12: while processJob is in the pause-wait no history entry is appended
\* and iterationCount is not incremented, and the pass that starts when the
\* wait ends has index one more than the number of recorded passes.
C12_PauseKeepsIndex ==
    [][\A j \in JobIds :
          (/\ jobs[j].exists
           /\ jobs'[j].exists
           /\ ptask[j].pc = "pausewait")
              => /\ jobs'[j].iterations = jobs[j].iterations
                 /\ ptask'[j].pc = "pausewait"
                        => jobs'[j].iterationCount = jobs[j].iterationCount
                 /\ ptask'[j].pc = "generate"
                        => jobs'[j].iterationCount = Len(jobs[j].iterations) + 1]_vars

\* C13: when a required stage collaborator call throws for a job that is not
\* cancelled, the status becomes `failed` with `error` the thrown message;
\* and for a job that is `failed` with a collaborator's message no further
\* Researcher, Generator or Deployer call is started.
C13_FailureSemantics ==
    [][\A j \in JobIds :
          (jobs[j].exists /\ jobs'[j].exists)
              => /\ (/\ StageThrows(j) \/ RStageThrows(j)
                     /\ jobs[j].status # "cancelled"
                     /\ ~jobControls[j].cancelled)
                        => (jobs'[j].status = "failed" /\ jobs'[j].error = ErrCollab)
                 /\ (jobs[j].status = "failed" /\ jobs[j].error = ErrCollab)
                        => calls'[j] = calls[j]]_vars

\* C14: a step of processJob in its post-deploy stages (browser verification,
\* differentiation check), whether the stage returned or raised, never sets
\* `failed` nor an error; after the browser stage the differentiation check
\* is still attempted (when the analysis has a target URL), and processJob
\* ends these stages by setting `complete`.
C14_PostDeployBestEffort ==
    [][\A j \in JobIds :
          (/\ jobs[j].exists
           /\ jobs'[j].exists
           /\ ptask[j].pc \in {"browser", "diff"}
           /\ ptask'[j] # ptask[j])
              => /\ jobs'[j].status \in {jobs[j].status, "complete"}
                 /\ jobs'[j].error = jobs[j].error
                 /\ ptask[j].pc = "browser"
                        => ptask'[j].pc = IF ptask[j].targetUrl THEN "diff" ELSE "done"
                 /\ ptask[j].pc = "diff" => ptask'[j].pc = "done"
                 /\ ptask'[j].pc = "done" => jobs'[j].status = "complete"]_vars

\* C14 witness: a job is `complete` after both the browser verification and
\* the differentiation check raised (no browser report, no differentiation
\* report stored).
C14_Witness ==
    \E j \in JobIds :
        /\ jobs[j].exists
        /\ ptask[j].pc = "done"
        /\ rtasks[j] = <<>>
        /\ jobs[j].status = "complete"
        /\ jobs[j].deployment = "web"
        /\ ptask[j].targetUrl
        /\ jobs[j].parity.kind = "pre"
        /\ ~jobs[j].differentiation

C16_IterateRejected ==
    [][\A j \in JobIds :
          (/\ Iterate(j)
           /\ \/ ~jobs[j].exists
              \/ jobs[j].status \notin {"complete", "paused"}
              \/ jobs[j].analysis = "none")
              => UNCHANGED <<jobs, jobControls, jobAbortControllers,
                             ptask, rtasks, calls>>]_vars

\* C16 witness: a `failed` job with analysis, on a server with an API key:
\* an iterate request is rejected for its status alone.
C16_Witness ==
    \E j \in JobIds :
        /\ jobs[j].exists
        /\ jobs[j].status = "failed"
        /\ jobs[j].analysis # "none"
        /\ envApiKey
        /\ Len(rtasks[j]) < MaxIterateCalls

\* The stage order of one runIteration pass, as moves of its position.
PassOrder ==
    {<<"generate", "test">>, <<"test", "fix">>, <<"test", "verify">>,
     <<"fix", "retest">>, <<"retest", "verify">>}

\* C17: an accepted iterate(jobId) on a `complete` job adds one to
\* iterationCount and to maxIterations and calls the Generator once; the
\* runIteration pass then moves generate -> test -> (fix -> retest exactly
\* when the tests failed) -> verify, starts no Researcher, Generator or
\* Deployer call, leaves both counters alone, and on success appends exactly
\* one history entry (its version, the reported score) and sets `complete`.
C17_IteratePass ==
    [][\A j \in JobIds :
          (jobs[j].exists /\ jobs'[j].exists)
              => /\ (jobs[j].status = "complete" /\ Len(rtasks'[j]) = Len(rtasks[j]) + 1)
                        => /\ jobs'[j].iterationCount = jobs[j].iterationCount + 1
                           /\ jobs'[j].maxIterations = jobs[j].maxIterations + 1
                           /\ jobs'[j].iterations = jobs[j].iterations
                           /\ calls'[j] = [calls[j] EXCEPT !["generate"] = @ + 1]
                           /\ rtasks'[j][Len(rtasks'[j])].pc = "generate"
                 /\ \A k \in 1..Len(rtasks[j]) :
                        (Len(rtasks'[j]) = Len(rtasks[j]) /\ rtasks'[j][k] # rtasks[j][k])
                        => LET p == rtasks[j][k].pc
                               q == rtasks'[j][k].pc
                           IN /\ calls'[j] = calls[j]
                              /\ jobs'[j].iterationCount = jobs[j].iterationCount
                              /\ jobs'[j].maxIterations = jobs[j].maxIterations
                              /\ q = "done" \/ <<p, q>> \in PassOrder
                              /\ (p = "test" /\ q = "fix") => jobs'[j].tests = "failed"
                              /\ (p = "test" /\ q = "verify") => jobs'[j].tests = "passed"
                              /\ IF p = "verify" /\ jobs'[j].status = "complete"
                                 THEN jobs'[j].iterations =
                                          Append(jobs[j].iterations,
                                                 [version |-> rtasks[j][k].iteration,
                                                  parityScore |-> jobs'[j].parity.score])
                                 ELSE /\ jobs'[j].iterations = jobs[j].iterations
                                      /\ q = "done" => jobs'[j].status \in {"failed", "cancelled"}]_vars

\* C17 witness: a job that was never paused has completed, was re-iterated
\* once, and is `complete` again with one more history entry.
C17_Witness ==
    \E j \in JobIds :
        /\ jobs[j].exists
        /\ jobs[j].paused = "undef"
        /\ ptask[j].pc = "done"
        /\ Len(rtasks[j]) = 1
        /\ rtasks[j][1].pc = "done"
        /\ jobs[j].status = "complete"
        /\ jobs[j].maxIterations = MAX_ITERATIONS + 1
        /\ Len(jobs[j].iterations) = jobs[j].iterationCount
        /\ calls[j]["generate"] = jobs[j].iterationCount
        /\ calls[j]["research"] = 1
        /\ calls[j]["deploy"] = 1

\* The processJob task of j is between its start and its end.
ProcessJobActive(j) == ptask[j].pc \notin {"idle", "done"}

\* Some runIteration task of j is between its start and its end.
RunIterationActive(j) == \E k \in 1..Len(rtasks[j]) : rtasks[j][k].pc # "done"

\* C18: at no time are processJob and a runIteration both active for one job.
C18_SingleWriter ==
    \A j \in JobIds : ~(ProcessJobActive(j) /\ RunIterationActive(j))

\* C19: a registered job whose orchestration tasks have all ended and whose
\* status is terminal has no control-signal entry.
C19_ControlRemoved ==
    \A j \in JobIds :
        (/\ jobs[j].exists
         /\ ptask[j].pc = "done"
         /\ ~RunIterationActive(j)
         /\ jobs[j].status \in Terminal)
            => ~jobControls[j].present

\* C20: pause, continue and accept handled for a job whose status is terminal
\* leave the control-signal map and the job's `paused` and `acceptedAt`
\* markers unchanged.
C20_SignalsOnTerminal ==
    [][\A j \in JobIds :
          (/\ Pause(j) \/ Continue(j) \/ Accept(j)
           /\ jobs[j].exists
           /\ jobs[j].status \in Terminal)
              => /\ jobControls' = jobControls
                 /\ jobs'[j].paused = jobs[j].paused
                 /\ jobs'[j].acceptedAt = jobs[j].acceptedAt]_vars

\* C21: cancel(jobId) for an unknown id or for a job whose status is terminal
\* changes nothing; for a registered non-terminal job it sets the cancelled
\* flag (the other flags as they were), status `cancelled` and error
\* 'Cancelled by user', and nothing else.  The handler is applied to every
\* reachable state.
C21_CancelHandler ==
    \A j \in JobIds :
        LET w == CancelHandler(W, j)
        IN IF ~jobs[j].exists \/ jobs[j].status \in Terminal
           THEN w = W
           ELSE /\ w.jobControls[j].present
                /\ w.jobControls[j].cancelled
                /\ w.jobControls[j].paused = jobControls[j].paused
                /\ w.jobControls[j].accepted = jobControls[j].accepted
                /\ w.jobs[j] = [jobs[j] EXCEPT !.status = "cancelled",
                                               !.error = "Cancelled by user"]
                /\ \A k \in JobIds \ {j} :
                       w.jobs[k] = jobs[k] /\ w.jobControls[k] = jobControls[k]
                /\ w.jobAbortControllers = jobAbortControllers
                /\ w.rtasks = rtasks
                /\ w.calls = calls
                /\ \A k \in JobIds : w.ptask[k].pc = ptask[k].pc

\* C21 witness: a job was cancelled by the handler while its Generator call
\* was in flight.
C21_Witness ==
    \E j \in JobIds :
        /\ jobs[j].exists
        /\ ptask[j].pc = "generate"
        /\ jobs[j].status = "cancelled"
        /\ jobs[j].error = "Cancelled by user"
        /\ jobControls[j].cancelled

\* The job of id j was registered and a delete(jobId) for it has completed.
Deleted(j) ==
    /\ ~jobs[j].exists
    /\ ptask[j].pc # "idle"
    /\ dtask[j] = "idle"

\* C22: once delete(jobId) has completed, the job registry, the control-signal
\* map and the abort-controller map hold no entry for the id.
C22_DeletedStaysGone ==
    \A j \in JobIds :
        Deleted(j) => /\ ~jobControls[j].present
                      /\ ~jobAbortControllers[j]

\* The positions of an orchestration task at which a stage call is in flight.
StageCalls ==
    {"research", "generate", "test", "fix", "retest", "verify", "deploy",
     "browser", "diff"}

\* C23: after delete(jobId) has completed, a step of the job's orchestration
\* tasks only ends the task: no further stage collaborator call is started.
C23_DeleteStopsCalls ==
    [][\A j \in JobIds :
          Deleted(j) =>
              /\ ptask'[j].pc \in {ptask[j].pc, "done"}
              /\ \A k \in 1..Len(rtasks[j]) :
                     rtasks'[j][k].pc \in {rtasks[j][k].pc, "done"}]_vars

\* C24: a create request without a target name or without a credential
\* changes nothing; any other create request for a fresh id registers that
\* one job, gives it a control-signal entry, and starts exactly one processJob
\* task for it (its Researcher call is in flight) and no runIteration.
C24_Create ==
    \A j \in JobIds :
        ptask[j].pc = "idle" =>
            \A saasName \in BOOLEAN, apiKey \in BOOLEAN :
                LET w == CreateHandler(W, j, saasName, apiKey)
                IN IF ~saasName \/ ~apiKey THEN w = W
                   ELSE /\ w.jobs = [jobs EXCEPT ![j] =
                                        [NewJob EXCEPT !.status = "researching",
                                                       !.maxIterations = MAX_ITERATIONS]]
                        /\ w.jobControls = [jobControls EXCEPT ![j] = FreshCtl]
                        /\ w.ptask = [ptask EXCEPT ![j].pc = "research"]
                        /\ w.rtasks = rtasks
                        /\ w.calls = [calls EXCEPT ![j]["research"] = 1]

\* C24 witness: a job has just been created: processJob awaits the Researcher.
C24_Witness ==
    \E j \in JobIds :
        /\ jobs[j].exists
        /\ jobs[j].status = "researching"
        /\ ptask[j].pc = "research"
        /\ calls[j] = [s \in Counted |-> IF s = "research" THEN 1 ELSE 0]
        /\ rtasks[j] = <<>>

\* C30: when the cancelled flag is set while a stage call of processJob or
\* runIteration is in flight, the step taken when that call returns starts
\* no other stage call: it ends the task.
C30_CancelStopsCalls ==
    [][\A j \in JobIds :
          (jobs[j].exists /\ jobs'[j].exists /\ checkCancelled(W, j))
              => /\ (ptask[j].pc \in StageCalls /\ ptask'[j].pc # ptask[j].pc)
                        => ptask'[j].pc = "done"
                 /\ \A k \in 1..Len(rtasks[j]) :
                        (rtasks[j][k].pc \in StageCalls
                         /\ Len(rtasks'[j]) = Len(rtasks[j])
                         /\ rtasks'[j][k].pc # rtasks[j][k].pc)
                            => rtasks'[j][k].pc = "done"]_vars

\* The score of a check is an integer.
IsIntegerScore(x) == DblFromInt(MathRound(x).value) = x

RECURSIVE WeightedSum(_, _, _)
\* sum of score_i * weight_i over integer scores
WeightedSum(cs, table, fallback) ==
    IF cs = <<>> THEN 0
    ELSE WeightedSum(Tail(cs), table, fallback)
         + MathRound(cs[1].score).value * WeightOr(table, cs[1].key, fallback)

RECURSIVE WeightSum(_, _, _)
WeightSum(cs, table, fallback) ==
    IF cs = <<>> THEN 0
    ELSE WeightSum(Tail(cs), table, fallback) + WeightOr(table, cs[1].key, fallback)

\* round(100 * sum(score_i/100 * weight_i) / sum(weight_i)) in exact
\* arithmetic, halves rounded up
ExactAggregate(cs, table, fallback) ==
    (2 * WeightedSum(cs, table, fallback) + WeightSum(cs, table, fallback))
        \div (2 * WeightSum(cs, table, fallback))

\* C25: for every non-empty check list with integer scores in 0..100, both
\* aggregators return round(100 * sum(score_i/100 * weight_i) / sum(weight_i)),
\* weight_i being the table weight of the check's key, or 5 for a key the
\* table does not list.
C25_AggregateFormula ==
    (/\ report.scored
     /\ checks # <<>>
     /\ \A i \in 1..Len(checks) : IsIntegerScore(checks[i].score))
        => /\ report.parity.overallScore = Num(ExactAggregate(checks, CORE_FEATURE_WEIGHTS, 5))
           /\ report.browser.totalScore = Num(ExactAggregate(checks, weights, 5))

\* Every score of the list is in 0..100.
ScoresInRange(cs) == \A i \in 1..Len(cs) : ~DblLess(DblFromInt(100), cs[i].score)

\* C26: for every non-empty check list whose scores are in 0..100, the
\* aggregate either calculateScore returns is an integer in 0..100.
C26_AggregateRange ==
    (report.scored /\ checks # <<>> /\ ScoresInRange(checks))
        => /\ report.parity.overallScore.kind = "finite"
           /\ report.parity.overallScore.value \in 0..100
           /\ report.browser.totalScore.kind = "finite"
           /\ report.browser.totalScore.value \in 0..100

\* C26 witness: a scored list of full length holding a score that is not an
\* integer, with an aggregate strictly inside the range.
C26_Witness ==
    /\ report.scored
    /\ Len(checks) = MaxChecks
    /\ \E i \in 1..Len(checks) : ~IsIntegerScore(checks[i].score)
    /\ report.parity.overallScore.kind = "finite"
    /\ report.parity.overallScore.value \in 1..99

\* List b is list a with the score of exactly one check raised.
RaisedOne(a, b) ==
    /\ Len(a) = Len(b)
    /\ \E i \in 1..Len(a) :
           /\ DblLess(a[i].score, b[i].score)
           /\ b = [a EXCEPT ![i].score = b[i].score]

\* C27: raising the score of a single check, all other checks and the weight
\* table as they were, never lowers the value calculateScore returns.
C27_Monotonic ==
    [][(report.scored /\ report'.scored /\ RaisedOne(checks, checks'))
          => /\ report'.parity.overallScore.value >= report.parity.overallScore.value
             /\ report'.browser.totalScore.value >= report.browser.totalScore.value]_vars

\* C27 witness: a score of a two-check list was raised and the verifier's
\* aggregate rose with it, the browser verifier's stayed where it was or rose.
C27_Witness ==
    /\ report.raised
    /\ Len(checks) = MaxChecks
    /\ report.parity.overallScore.value > report.before[1].value
    /\ report.browser.totalScore.value >= report.before[2].value

\* C28: for an empty check list the aggregator returns the score 0 and the
\* report has passesThreshold = false.
C28_EmptyList ==
    (report.scored /\ checks = <<>>)
        => /\ report.parity.overallScore = Num(0)
           /\ ~report.parity.passesThreshold
           /\ report.browser.totalScore = Num(0)
           /\ ~report.browser.passesThreshold

\* C29: for two distinct jobs A and B running concurrently, the pause,
\* continue, accept, cancel, iterate and delete calls addressed to A leave B
\* as it would be without them: no such call changes B's record (status,
\* iterationCount, iterations), control flags, tasks or stage calls, and a B
\* that receives no request records in `iterations` only the scores its
\* verifier reports for the files its own generator wrote, as it does when A
\* receives no call.
C29_Independence ==
    /\ [][\A a, b \in JobIds :
             (a # b /\ AddressedTo(a))
                 => /\ jobs'[b] = jobs[b]
                    /\ jobControls'[b] = jobControls[b]
                    /\ jobAbortControllers'[b] = jobAbortControllers[b]
                    /\ ptask'[b] = ptask[b]
                    /\ rtasks'[b] = rtasks[b]
                    /\ calls'[b] = calls[b]]_vars
    /\ [](\A b \in JobIds \ SoloIds :
             \A i \in 1..Len(jobs[b].iterations) :
                 jobs[b].iterations[i].parityScore \in Scores)

\* The awaited calls of a loop pass.
PassStages == {"generate", "test", "fix", "retest", "verify"}

\* C31: the iteration counter is written to the Job Record before any stage
\* call of the pass begins: when pass k of processJob ends cancelled or failed
\* at one of its stages the record shows iterationCount = k and `iterations`
\* holds at most k entries, and when the Generator call of pass k starts
\* iterationCount is not below k.
C31_CountBeforeWork ==
    [][\A j \in JobIds :
          (jobs[j].exists /\ jobs'[j].exists)
              => /\ (/\ ptask[j].pc \in PassStages
                     /\ ptask'[j].pc = "done"
                     /\ jobs'[j].status \in {"cancelled", "failed"})
                        => /\ jobs'[j].iterationCount = ptask[j].iteration
                           /\ Len(jobs'[j].iterations) <= ptask[j].iteration
                 /\ (ptask[j].pc # "generate" /\ ptask'[j].pc = "generate")
                        => jobs'[j].iterationCount >= ptask'[j].iteration]_vars

\* In this step the verify call of processJob or of a runIteration of job j
\* returned a report (it did not throw).
VerifyReturned(j) ==
    \/ /\ ptask[j].pc = "verify"
       /\ ptask'[j].pc # "verify"
       /\ ~(jobs'[j].status = "failed" /\ jobs'[j].error = ErrCollab)
    \/ \E k \in 1..Len(rtasks[j]) :
           /\ Len(rtasks'[j]) = Len(rtasks[j])
           /\ rtasks[j][k].pc = "verify"
           /\ rtasks'[j][k].pc = "done"
           /\ jobs'[j].status = "complete"

\* C32: `iterations` is append-only and one-per-pass: a step in which a verify
\* call returns appends exactly one entry, carrying the score just reported
\* (below the threshold or not); every other step of the orchestrator or of a
\* handler other than delete leaves `iterations` as it is.
C32_HistoryAppendOnly ==
    [][\A j \in JobIds :
          (jobs[j].exists /\ jobs'[j].exists)
              => IF VerifyReturned(j)
                 THEN /\ Len(jobs'[j].iterations) = Len(jobs[j].iterations) + 1
                      /\ SubSeq(jobs'[j].iterations, 1, Len(jobs[j].iterations))
                             = jobs[j].iterations
                      /\ jobs'[j].iterations[Len(jobs'[j].iterations)].parityScore
                             = jobs'[j].parity.score
                 ELSE jobs'[j].iterations = jobs[j].iterations]_vars

\* C32 witness: two passes have been recorded, the first below the threshold.
C32_Witness ==
    \E j \in JobIds :
        /\ jobs[j].exists
        /\ Len(jobs[j].iterations) = 2
        /\ jobs[j].iterations[1].parityScore < PARITY_THRESHOLD
        /\ jobs[j].iterations[1].version = 1
        /\ jobs[j].iterations[2].version = 2
        /\ rtasks[j] = <<>>

\* C33: within one job the stages run in pipeline order, each result on the
\* Job Record before the next stage starts: the status becomes `testing` only
\* from generating|iterating with the generation recorded, `fixing` only from
\* `testing` with a recorded test result of passed = false, and `verifying`
\* only from `testing` with passed tests or from `fixing` with the fixes and
\* the second test result recorded.
C33_PipelineOrder ==
    [][\A j \in JobIds :
          (jobs[j].exists /\ jobs'[j].exists /\ jobs'[j].status # jobs[j].status)
              => /\ jobs'[j].status = "testing"
                        => /\ jobs[j].status \in {"generating", "iterating"}
                           /\ jobs'[j].generation
                 /\ jobs'[j].status = "fixing"
                        => /\ jobs[j].status = "testing"
                           /\ jobs'[j].tests = "failed"
                 /\ jobs'[j].status = "verifying"
                        => \/ jobs[j].status = "testing" /\ jobs'[j].tests = "passed"
                           \/ /\ jobs[j].status = "fixing"
                              /\ jobs'[j].fixes
                              /\ jobs'[j].tests # "none"]_vars

\* C34: over the whole life of a job, manual re-iterations included, the
\* Researcher is called exactly once (by the create request's processJob) and
\* the Deployer at most once, and once the Deployer has been called
\* processJob is past its iteration loop.
C34_ResearchAndDeployOnce ==
    \A j \in JobIds :
        /\ calls[j]["research"] = (IF ptask[j].pc = "idle" THEN 0 ELSE 1)
        /\ calls[j]["deploy"] <= 1
        /\ calls[j]["deploy"] = 1 => ptask[j].pc \in {"deploy", "browser", "diff", "done"}

\* C34 witness: a job has been deployed and completed, and a manual
\* re-iteration of it has run to its end.
C34_Witness ==
    \E j \in JobIds :
        /\ jobs[j].exists
        /\ jobs[j].status = "complete"
        /\ ptask[j].pc = "done"
        /\ Len(rtasks[j]) = 1
        /\ rtasks[j][1].pc = "done"
        /\ calls[j]["research"] = 1
        /\ calls[j]["deploy"] = 1
        /\ calls[j]["generate"] >= 2

\* C35: an interrupted pass is not recorded: when the cancelled signal is set
\* while a stage call of a pass (generate, test, fix, retest or verify) is in
\* flight, the step the task takes when that call returns appends no entry
\* to `iterations`.
C35_InterruptedNotRecorded ==
    [][\A j \in JobIds :
          (jobs[j].exists /\ jobs'[j].exists /\ checkCancelled(W, j))
              => /\ (ptask[j].pc \in PassStages /\ ptask'[j] # ptask[j])
                        => jobs'[j].iterations = jobs[j].iterations
                 /\ \A k \in 1..Len(rtasks[j]) :
                        (/\ Len(rtasks'[j]) = Len(rtasks[j])
                         /\ rtasks[j][k].pc \in PassStages
                         /\ rtasks'[j][k] # rtasks[j][k])
                            => jobs'[j].iterations = jobs[j].iterations]_vars

\* C36: whenever a job's status is `deploying` its record holds a generation
\* result and iterationCount >= 1; a job accepted before its first pass does
\* not end `failed` for want of a generation.
C36_DeployHasGeneration ==
    \A j \in JobIds :
        jobs[j].exists
            => /\ jobs[j].status = "deploying"
                   => jobs[j].generation /\ jobs[j].iterationCount >= 1
               /\ ~(jobs[j].status = "failed" /\ jobs[j].error = ErrType)

\* C37: every key of the control-signal map is the id of a job present in the
\* job registry: no control entry exists for an unknown or deleted job.
C37_ControlsOfKnownJobs ==
    \A j \in JobIds : jobControls[j] # NoCtl => jobs[j].exists

\* C38: the `version` fields of a job's history entries start at 1 and are
\* consecutive in append order (entry i has version i), across processJob
\* passes and manual re-iterations.
C38_VersionsConsecutive ==
    \A j \in JobIds :
        jobs[j].exists
            => \A i \in 1..Len(jobs[j].iterations) : jobs[j].iterations[i].version = i

\* C39: every exit path of processJob and of runIteration (complete, failed,
\* cancelled) removes the job's abort-controller entry, so an abort-controller
\* entry exists only for a job with an active orchestration task.
C39_AbortControllerRemoved ==
    \A j \in JobIds :
        jobAbortControllers[j] => ProcessJobActive(j) \/ RunIterationActive(j)

\* processJob ended complete, a later runIteration ended failed, and no entry
\* is left.
C39_Witness ==
    \E j \in JobIds :
        /\ jobs[j].exists
        /\ jobs[j].status = "failed"
        /\ ptask[j].pc = "done"
        /\ calls[j]["deploy"] = 1
        /\ Len(rtasks[j]) = 1
        /\ rtasks[j][1].pc = "done"
        /\ ~jobAbortControllers[j]

====
